---- MODULE Spec2Model ----
(***************************************************************************)
(* Model of pwlidar-cloud's invocation engine.                             *)
(*                                                                         *)
(*   Spec     the invocation scheduler (invoker.py: FunctionInvoker and    *)
(*            JobMonitor) together with the remote calls, the Status Store *)
(*            markers and the completion channel it observes.              *)
(*   FairSpec Spec with the fairness the threads' scheduling gives.        *)
(*   CleanSpec, RabbitSpec  the scheduler with FunctionExecutor.clean      *)
(*            deleting a job's objects, and with the rabbitmq monitor.     *)
(*   FutSpec  one Call Future (future.py: ResponseFuture) against the      *)
(*            Status Store entries of its call.                            *)
(***************************************************************************)
EXTENDS Integers, Sequences, FiniteSets, Bags, TLC

\* ------------------------------------------------------------------------
\* Bounds of the model
\* ------------------------------------------------------------------------
MaxJobs == 2          \* run() calls in one behaviour
MaxCalls == 2         \* calls submitted in one behaviour, over all jobs
MaxWorkers == 2       \* the configured 'workers' ranges over 1..MaxWorkers
MaxRejects == 1       \* invocations the Compute Handle refuses
MaxDup == 2           \* times the channel carries one terminal message
MaxStops == 1         \* stop() calls in one behaviour
MaxQueries == 12      \* result() is not called with more output reads than this behind
MaxMiss == 1          \* reads that find nothing before a read finds the object
MaxWaits == 2         \* wait() and clean() calls of the caller in a behaviour
MaxHandlers == 2      \* compute handlers (regions) of the invoker
MaxCallsDup == 3      \* calls submitted in one behaviour of DupSpec, over all jobs

\* ------------------------------------------------------------------------
\* Program constants
\* ------------------------------------------------------------------------
INVOKER_PROCESSES == 2
GET_RESULT_MAX_RETRIES == 10
PadWidth == 5

VARIABLES
    \* configuration read in FunctionInvoker.__init__ / JobMonitor.__init__
    workers, rabbitmq_monitor, remote_invoker,
    \* FunctionInvoker fields
    token_bucket_q, pending_calls_q, running_flag, ongoing_activations,
    invokers, wk, tasks,
    \* the caller's thread: where it is inside run() / stop()
    mainpc, njobs, nstops, job, futures, run,
    \* JobMonitor threads, one per job
    mon,
    \* the world outside: remote calls, Status Store, completion channel
    callst, markers, channel, rejectsLeft, cleaned_jobs, remoteSt,
    \* one ResponseFuture and the Status Store entries of its call
    fut, flast, store,
    \* FunctionExecutor: its futures, the wait() or clean() it is inside, the
    \* deletions of a job's objects it has triggered
    efut, wt, deletions, nwaits

schedVars == <<workers, rabbitmq_monitor, remote_invoker,
               token_bucket_q, pending_calls_q, running_flag,
               ongoing_activations, invokers, wk, tasks,
               mainpc, njobs, nstops, job, futures, run, mon,
               callst, markers, channel, rejectsLeft, cleaned_jobs, remoteSt>>
futVars == <<fut, flast, store>>
waitVars == <<efut, wt, deletions, nwaits>>
vars == <<schedVars, futVars, waitVars>>

\* ------------------------------------------------------------------------
\* Helpers
\* ------------------------------------------------------------------------
Min(a, b) == IF a < b THEN a ELSE b
Max(a, b) == IF a > b THEN a ELSE b

JobIds == 1..MaxJobs
CallIdx == 0..(MaxCalls - 1)

\* range(n): the sequence 0, 1, ..., n-1
Range(n) == [k \in 1..n |-> k - 1]

\* Python slices s[:k] and s[k:] for k >= 0
SliceTo(s, k) == SubSeq(s, 1, Min(k, Len(s)))
SliceFrom(s, k) == SubSeq(s, Min(k, Len(s)) + 1, Len(s))

SeqToSet(s) == {s[k] : k \in 1..Len(s)}

\* decimal digits of a natural number, most significant first
RECURSIVE Digits(_)
Digits(n) == IF n < 10 THEN <<n>> ELSE Append(Digits(n \div 10), n % 10)

\* "{:05d}".format(i): decimal digits left-padded with zeros to width 5
Fmt05(i) ==
    LET d == Digits(i)
    IN  IF Len(d) >= PadWidth THEN d
        ELSE [k \in 1..(PadWidth - Len(d)) |-> 0] \o d

\* int(call_id)
RECURSIVE ParseInt(_)
ParseInt(s) == IF Len(s) = 0 THEN 0
               ELSE 10 * ParseInt(SubSeq(s, 1, Len(s) - 1)) + s[Len(s)]

\* the Python version of the caller, and the versions a runtime may report
py_local_version == "3.6"
PyVersions == {"3.6", "3.7"}

\* the 'python_ver' of the runtime metadata of each compute handler, in the
\* order of self.compute_handlers (one handler, or one for each region)
HandlerVersions ==
    UNION {[1..k -> PyVersions] : k \in 1..MaxHandlers}

\* select_runtime: the loop over the compute handlers raises at the first
\* runtime whose Python version is not the local one, else the metadata of
\* the last handler is returned
SelectRuntime_lastOnly(vers) ==
    IF vers[Len(vers)] # py_local_version THEN "raise" ELSE vers[Len(vers)]
SelectRuntime(vers) ==
    IF \E k \in 1..Len(vers) : vers[k] # py_local_version
    THEN "raise"
    ELSE vers[Len(vers)]

\* the (None, None) pair stop() pushes on the pending queue
Sentinel == <<0, <<>>>>

\* ------------------------------------------------------------------------
\* Pure pieces of FunctionInvoker / JobMonitor
\* ------------------------------------------------------------------------

\* run(): total_direct = self.workers - self.ongoing_activations
TotalDirect(w, ongoing) == w - ongoing

\* run(): callids[:total_direct] and callids[total_direct:]
DirectIds_offByOne(n, total_direct) == SliceTo(Range(n), total_direct + 1)
DirectIds(n, total_direct) == SliceTo(Range(n), total_direct)
NonDirectIds_all(n, total_direct) == Range(n)
NonDirectIds(n, total_direct) == SliceFrom(Range(n), total_direct)

\* _invoke(): no activation id, self.pending_calls_q.put((job, call_id))
Reenqueue_twice(q, j, call_id) == q \o <<<<j, call_id>>, <<j, call_id>>>>
Reenqueue(q, j, call_id) == Append(q, <<j, call_id>>)

\* run(): the list of futures created at the end of run()
\* (ResponseFuture(...) followed by _set_state(Invoked))
CreateFutures_short(j, n) ==
    [k \in 1..(n - 1) |-> [job_id |-> j, call_id |-> Fmt05(k - 1), state |-> "Invoked"]]
CreateFutures(j, n) ==
    [k \in 1..n |-> [job_id |-> j, call_id |-> Fmt05(k - 1), state |-> "Invoked"]]

\* _job_monitoring_os(): total_new_tokens
NewTokens(listing, done) == Cardinality(listing) - done

\* for i in range(k): ... runs max(k, 0) times
Times_none(k) == 0
Times(k) == Max(k, 0)

\* the entries run() puts on the pending queue for the call ids in ids
Entries(j, ids) == [k \in 1..Len(ids) |-> <<j, Fmt05(ids[k])>>]

\* the direct _invoke tasks run() submits to its thread pool
DirectTasks(j, ids) == {<<j, Fmt05(ids[k]), "direct">> : k \in 1..Len(ids)}

\* background workers inside their loop
Alive == wk.tok + wk.ent + BagCardinality(wk.held)

CallsUsed == LET RECURSIVE Sum(_)
                 Sum(S) == IF S = {} THEN 0
                           ELSE LET x == CHOOSE x \in S : TRUE
                                IN  job[x] + Sum(S \ {x})
             IN Sum(JobIds)

\* run(): "for i in callids_to_invoke_direct: executor.submit(self._invoke,
\* job, call_id)": the order in which the direct invocations are submitted
Submitted_reversed(ids) == [k \in 1..Len(ids) |-> ids[Len(ids) + 1 - k]]
Submitted(ids) == ids

\* what the caller's last run() did: the job, the value of ongoing_activations
\* it computed the free slots from, the call ids _invoke was run for in run()'s
\* own pool, those of them that obtained an activation id, the call ids still
\* to enqueue, the entries it enqueued, how much it added to
\* ongoing_activations, how it ended, the call ids in the order run() gave
\* them to its pool and in the order their invocations met a compute handler
NoRun == [id |-> 0, total |-> 0, evalOngoing |-> 0, direct |-> {}, ok |-> {},
          rest |-> <<>>, enq |-> <<>>, inc |-> 0, returned |-> FALSE,
          raised |-> FALSE, remote |-> FALSE, vers |-> <<>>,
          sub |-> <<>>, inv |-> <<>>]

NoMon == [started |-> FALSE, done |-> 0, issued |-> 0, seen |-> {},
          issuedFor |-> [i \in CallIdx |-> 0]]

\* ------------------------------------------------------------------------
\* ResponseFuture: the object and the Status Store entries of its call
\* ------------------------------------------------------------------------

\* self._call_status = None
NoStatus == [type |-> "none", exception |-> FALSE, result |-> FALSE,
             new_futures |-> FALSE, exc |-> "none"]

\* the status event '__init__'
InitBlob == [type |-> "__init__", exception |-> FALSE, result |-> FALSE,
             new_futures |-> FALSE, exc |-> "none"]

\* how the remote call ends: with an exception (the handler's sentinels
\* WRONGVERSION, OUTATIME, OUTOFMEMORY, or an exception raised in the call:
\* USER stands for one of a class of the user's own, TimeoutError for one of
\* Python's built-in class), without a result, with a value, or with new
\* futures
Outcomes == {"WRONGVERSION", "OUTATIME", "OUTOFMEMORY", "USER", "TimeoutError",
             "noresult", "value", "futures"}
ExcOutcomes == {"WRONGVERSION", "OUTATIME", "OUTOFMEMORY", "USER", "TimeoutError"}

\* the status event '__end__' of a call with the given outcome
EndBlob(o) == [type |-> "__end__",
               exception |-> o \in ExcOutcomes,
               result |-> o \in {"value", "futures"},
               new_futures |-> o = "futures",
               exc |-> IF o \in ExcOutcomes THEN o ELSE "none"]

\* the call of the future before its activation starts: how it will end, the
\* status and the output the store holds for it, where function_handler is,
\* STORE_STATUS, the event types given to CallStatus.send, the objects put
\* in the store and the messages published on the channel
NoStore == [outcome |-> "value", status |-> NoStatus, output |-> "absent",
            hpc |-> "start", store_status |-> TRUE, escaped |-> FALSE,
            sent |-> <<>>, puts |-> <<>>, pubs |-> <<>>]

\* ResponseFuture.__init__
NoFut == [state |-> "New", call_status |-> NoStatus, produce_output |-> TRUE,
          return_val |-> "None", new_futures |-> "None", exception |-> "unset",
          status_query_count |-> 0, output_query_count |-> 0, read |-> FALSE]

\* the last status() or result() call: its arguments, the state it found the
\* future in, what it raised or returned; seq flips with every call
NoCall == [op |-> "none", throw |-> FALSE, pre |-> "New", seq |-> 0,
           raised |-> "none", msg |-> "None", ret |-> "None"]

\* ------------------------------------------------------------------------
\* Initial state: FunctionInvoker.__init__, JobMonitor.__init__
\* ------------------------------------------------------------------------
SchedInit(rabbit) ==
    /\ workers \in 1..MaxWorkers
    /\ rabbitmq_monitor = rabbit
    /\ remote_invoker \in BOOLEAN
    /\ token_bucket_q = 0
    /\ pending_calls_q = <<>>
    /\ running_flag = 0
    /\ ongoing_activations = 0
    /\ invokers = 0
    /\ wk = [tok |-> 0, ent |-> 0, held |-> EmptyBag]
    /\ tasks = EmptyBag
    /\ mainpc = "idle"
    /\ njobs = 0
    /\ nstops = 0
    /\ job = [j \in JobIds |-> 0]
    /\ futures = <<>>
    /\ run = NoRun
    /\ mon = [j \in JobIds |-> NoMon]
    /\ callst = [j \in JobIds |-> [i \in CallIdx |-> "new"]]
    /\ markers = [j \in JobIds |-> {}]
    /\ channel = [j \in JobIds |-> EmptyBag]
    /\ rejectsLeft = MaxRejects
    /\ cleaned_jobs = {}
    /\ remoteSt = [j \in JobIds |-> "none"]

FutIdle ==
    /\ fut = NoFut
    /\ flast = NoCall
    /\ store = NoStore

\* FunctionExecutor.__init__: no futures, nothing cleaned; no wait() yet
NoWait == [pc |-> "none", throw |-> FALSE, download |-> FALSE, when |-> "ALL",
           sel |-> 0, kind |-> "none", count |-> 0,
           stops |-> 0, skipped |-> {}, done |-> {}, notdone |-> {},
           remote |-> "none", raised |-> "none",
           get |-> FALSE, rev |-> FALSE, result |-> <<>>, bare |-> FALSE,
           given |-> {}, tracked |-> {}, late |-> {}]

WaitIdle ==
    /\ efut = [j \in JobIds |-> [i \in CallIdx |-> NoFut]]
    /\ wt = NoWait
    /\ deletions = [j \in JobIds |-> 0]
    /\ nwaits = 0

Init == SchedInit(FALSE) /\ FutIdle /\ WaitIdle

\* ------------------------------------------------------------------------
\* FunctionInvoker.run
\* ------------------------------------------------------------------------

\* run(): the stale-token drain, one decrement per token taken
DrainOngoing_keep(ongoing, tokens) == ongoing
DrainOngoing(ongoing, tokens) == ongoing - tokens

\* run(): self.ongoing_activations += len(callids_to_invoke_direct)
AddDirect(ongoing, ids) == ongoing + Len(ids)

\* start_job_monitoring
StartMonitor(j) == [mon EXCEPT ![j].started = TRUE]

\* The first part of run(): drain the token bucket, start the background
\* workers when the scheduler was idle, then either hand the job to the
\* remote invoker, or submit the direct invocations, or (no free worker)
\* enqueue every call, start the monitor and return the futures.
RunWithin(n, verOK, vers, budget) ==
    /\ mainpc = "idle"
    /\ njobs < MaxJobs
    /\ CallsUsed + n <= budget
    /\ LET j == njobs + 1
           idle == running_flag = 0
           o == IF idle THEN 0 ELSE DrainOngoing(ongoing_activations, token_bucket_q)
           rec == [NoRun EXCEPT !.id = j, !.total = n, !.evalOngoing = o,
                                !.vers = vers]
       IN
       /\ njobs' = j
       /\ job' = [job EXCEPT ![j] = n]
       /\ token_bucket_q' = 0
       /\ running_flag' = 1
       /\ wk' = IF idle THEN [wk EXCEPT !.tok = @ + INVOKER_PROCESSES] ELSE wk
       /\ invokers' = IF idle THEN INVOKER_PROCESSES ELSE invokers
       /\ IF remote_invoker /\ n > 1
          THEN \* select_runtime, then the thread running _invoke_remote
               /\ ongoing_activations' = o
               /\ IF verOK
                  THEN /\ remoteSt' = [remoteSt EXCEPT ![j] = "starting"]
                       /\ futures' = CreateFutures(j, n)
                       /\ run' = [rec EXCEPT !.remote = TRUE, !.returned = TRUE]
                  ELSE /\ remoteSt' = remoteSt
                       /\ futures' = <<>>
                       /\ run' = [rec EXCEPT !.remote = TRUE, !.raised = TRUE]
               /\ mainpc' = "idle"
               /\ UNCHANGED <<tasks, pending_calls_q, mon>>
          ELSE /\ verOK
               /\ remoteSt' = remoteSt
               /\ IF o < workers
                  THEN LET td == TotalDirect(workers, o)
                           ids == DirectIds(n, td)
                       IN  /\ ongoing_activations' = AddDirect(o, ids)
                           /\ tasks' = tasks (+) SetToBag(DirectTasks(j, ids))
                           /\ run' = [rec EXCEPT !.rest = NonDirectIds(n, td),
                                                 !.inc = AddDirect(o, ids) - o,
                                                 !.sub = Submitted(ids)]
                           /\ mainpc' = "run_wait"
                           /\ UNCHANGED <<pending_calls_q, mon, futures>>
                  ELSE /\ ongoing_activations' = o
                       /\ tasks' = tasks
                       /\ pending_calls_q' = pending_calls_q \o Entries(j, Range(n))
                       /\ mon' = StartMonitor(j)
                       /\ futures' = CreateFutures(j, n)
                       /\ run' = [rec EXCEPT !.enq = Entries(j, Range(n)),
                                             !.returned = TRUE]
                       /\ mainpc' = "idle"
    /\ UNCHANGED <<workers, rabbitmq_monitor, remote_invoker, nstops, callst,
                   markers, channel, rejectsLeft, cleaned_jobs, futVars, waitVars>>

\* run() of a job of n calls after the select_runtime of lidar_map
RunMapped(n, verOK, vers) == RunWithin(n, verOK, vers, MaxCalls)

\* run() called on its own, without the select_runtime of the executor
RunBegin(n, verOK) == RunMapped(n, verOK, <<>>)

\* The rest of run() once every direct invocation has finished: enqueue the
\* remaining call ids, start the job's monitor, create and return the futures.
RunFinish ==
    /\ mainpc = "run_wait"
    /\ \A t \in BagToSet(tasks) : ~(t[1] = run.id /\ t[3] = "direct")
    /\ pending_calls_q' = pending_calls_q \o Entries(run.id, run.rest)
    /\ mon' = StartMonitor(run.id)
    /\ futures' = CreateFutures(run.id, run.total)
    /\ run' = [run EXCEPT !.enq = Entries(run.id, run.rest), !.rest = <<>>,
                          !.returned = TRUE]
    /\ mainpc' = "idle"
    /\ UNCHANGED <<workers, rabbitmq_monitor, remote_invoker, token_bucket_q,
                   running_flag, ongoing_activations, invokers, wk, tasks,
                   njobs, nstops, job, callst, markers, channel, rejectsLeft,
                   cleaned_jobs, remoteSt, futVars, waitVars>>

\* ------------------------------------------------------------------------
\* FunctionInvoker._invoke, run by run()'s pool and by the workers' pools
\* ------------------------------------------------------------------------

\* the handler's first status event, published on the channel when the
\* rabbitmq monitor is configured
PublishInit(j, i) ==
    IF rabbitmq_monitor
    THEN [channel EXCEPT ![j] = @ (+) SetToBag({<<i, "__init__">>})]
    ELSE channel

\* compute_handler.invoke returned an activation id
InvokeAccept(t) ==
    /\ t \in BagToSet(tasks)
    /\ tasks' = tasks (-) SetToBag({t})
    /\ callst' = [callst EXCEPT ![t[1]][ParseInt(t[2])] = "running"]
    /\ channel' = PublishInit(t[1], ParseInt(t[2]))
    /\ run' = IF t[3] = "direct"
              THEN [run EXCEPT !.direct = @ \cup {ParseInt(t[2])},
                               !.ok = @ \cup {ParseInt(t[2])},
                               !.inv = Append(@, ParseInt(t[2]))]
              ELSE run
    /\ UNCHANGED <<workers, rabbitmq_monitor, remote_invoker, token_bucket_q,
                   pending_calls_q, running_flag, ongoing_activations, invokers,
                   wk, mainpc, njobs, nstops, job, futures, mon, markers, rejectsLeft,
                   cleaned_jobs, remoteSt, futVars, waitVars>>

\* compute_handler.invoke returned no activation id
InvokeReject(t) ==
    /\ t \in BagToSet(tasks)
    /\ rejectsLeft > 0
    /\ rejectsLeft' = rejectsLeft - 1
    /\ tasks' = tasks (-) SetToBag({t})
    /\ pending_calls_q' = Reenqueue(pending_calls_q, t[1], t[2])
    /\ callst' = [callst EXCEPT ![t[1]][ParseInt(t[2])] = "rejected"]
    /\ run' = IF t[3] = "direct"
              THEN [run EXCEPT !.direct = @ \cup {ParseInt(t[2])},
                               !.inv = Append(@, ParseInt(t[2]))]
              ELSE run
    /\ UNCHANGED <<workers, rabbitmq_monitor, remote_invoker, token_bucket_q,
                   running_flag, ongoing_activations, invokers, wk, mainpc,
                   njobs, nstops, job, futures, mon, markers, channel,
                   cleaned_jobs, remoteSt, futVars, waitVars>>

\* FunctionInvoker._invoke_remote, in its own thread
InvokeRemote(j, accepted) ==
    /\ remoteSt[j] = "starting"
    /\ accepted \/ rejectsLeft > 0
    /\ rejectsLeft' = IF accepted THEN rejectsLeft ELSE rejectsLeft - 1
    /\ remoteSt' = [remoteSt EXCEPT ![j] = IF accepted THEN "spawned" ELSE "failed"]
    /\ UNCHANGED <<workers, rabbitmq_monitor, remote_invoker, token_bucket_q,
                   pending_calls_q, running_flag, ongoing_activations, invokers,
                   wk, tasks, mainpc, njobs, nstops, job, futures, run, mon, callst,
                   markers, channel, cleaned_jobs, futVars, waitVars>>

\* ------------------------------------------------------------------------
\* FunctionInvoker._run_invoker_process: one background worker's loop
\* ------------------------------------------------------------------------

\* self.token_bucket_q.get()
WTakeToken ==
    /\ wk.tok > 0
    /\ token_bucket_q > 0
    /\ token_bucket_q' = token_bucket_q - 1
    /\ wk' = [wk EXCEPT !.tok = @ - 1, !.ent = @ + 1]
    /\ UNCHANGED <<workers, rabbitmq_monitor, remote_invoker, pending_calls_q,
                   running_flag, ongoing_activations, invokers, tasks, mainpc,
                   njobs, nstops, job, futures, run, mon, callst, markers, channel,
                   rejectsLeft, cleaned_jobs, remoteSt, futVars, waitVars>>

\* job, call_id = self.pending_calls_q.get()
WTakeEntry ==
    /\ wk.ent > 0
    /\ pending_calls_q # <<>>
    /\ pending_calls_q' = Tail(pending_calls_q)
    /\ wk' = [wk EXCEPT !.ent = @ - 1,
                        !.held = @ (+) SetToBag({Head(pending_calls_q)})]
    /\ UNCHANGED <<workers, rabbitmq_monitor, remote_invoker, token_bucket_q,
                   running_flag, ongoing_activations, invokers, tasks, mainpc,
                   njobs, nstops, job, futures, run, mon, callst, markers, channel,
                   rejectsLeft, cleaned_jobs, remoteSt, futVars, waitVars>>

\* the worker's check without the test of the flag
WCheck_ignoreFlag(e) ==
    /\ e \in BagToSet(wk.held)
    /\ wk' = [wk EXCEPT !.held = @ (-) SetToBag({e}), !.tok = @ + 1]
    /\ tasks' = IF e = Sentinel THEN tasks
                ELSE tasks (+) SetToBag({<<e[1], e[2], "bg">>})
    /\ UNCHANGED <<workers, rabbitmq_monitor, remote_invoker, token_bucket_q,
                   pending_calls_q, running_flag, ongoing_activations, invokers,
                   mainpc, njobs, nstops, job, futures, run, mon, callst, markers,
                   channel, rejectsLeft, cleaned_jobs, remoteSt, futVars, waitVars>>

\* if self.running_flag.value: executor.submit(self._invoke, job, call_id)
\* else: break.  Submitting _invoke(None, None) for a sentinel entry fails
\* inside the pool thread before any invocation and leaves no trace.
WCheck(e) ==
    /\ e \in BagToSet(wk.held)
    /\ IF running_flag # 0
       THEN /\ wk' = [wk EXCEPT !.held = @ (-) SetToBag({e}), !.tok = @ + 1]
            /\ tasks' = IF e = Sentinel THEN tasks
                        ELSE tasks (+) SetToBag({<<e[1], e[2], "bg">>})
       ELSE /\ wk' = [wk EXCEPT !.held = @ (-) SetToBag({e})]
            /\ tasks' = tasks
    /\ UNCHANGED <<workers, rabbitmq_monitor, remote_invoker, token_bucket_q,
                   pending_calls_q, running_flag, ongoing_activations, invokers,
                   mainpc, njobs, nstops, job, futures, run, mon, callst, markers,
                   channel, rejectsLeft, cleaned_jobs, remoteSt, futVars, waitVars>>

\* ------------------------------------------------------------------------
\* FunctionInvoker.stop
\* ------------------------------------------------------------------------

\* one '#' and one (None, None) for each worker in self.invokers
PushSentinels(q, k) == q \o [x \in 1..k |-> Sentinel]

\* self.running_flag.value = 0
StopFlag ==
    /\ mainpc = "idle"
    /\ invokers > 0
    /\ nstops < MaxStops
    /\ nstops' = nstops + 1
    /\ running_flag' = 0
    /\ mainpc' = "stop_push"
    /\ UNCHANGED <<workers, rabbitmq_monitor, remote_invoker, token_bucket_q,
                   pending_calls_q, ongoing_activations, invokers, wk, tasks,
                   njobs, job, futures, run, mon, callst, markers, channel,
                   rejectsLeft, cleaned_jobs, remoteSt, futVars, waitVars>>

\* for invoker in self.invokers: put('#'); put((None, None))
StopPush ==
    /\ mainpc = "stop_push"
    /\ token_bucket_q' = token_bucket_q + invokers
    /\ pending_calls_q' = PushSentinels(pending_calls_q, invokers)
    /\ mainpc' = "stop_drain"
    /\ UNCHANGED <<workers, rabbitmq_monitor, remote_invoker, running_flag,
                   ongoing_activations, invokers, wk, tasks, njobs, nstops, job,
                   futures, run, mon, callst, markers, channel, rejectsLeft,
                   cleaned_jobs, remoteSt, futVars, waitVars>>

\* while not self.pending_calls_q.empty(): self.pending_calls_q.get(False)
StopDrain ==
    /\ mainpc = "stop_drain"
    /\ pending_calls_q' = <<>>
    /\ mainpc' = "idle"
    /\ UNCHANGED <<workers, rabbitmq_monitor, remote_invoker, token_bucket_q,
                   running_flag, ongoing_activations, invokers, wk, tasks,
                   njobs, nstops, job, futures, run, mon, callst, markers, channel,
                   rejectsLeft, cleaned_jobs, remoteSt, futVars, waitVars>>

\* ------------------------------------------------------------------------
\* The remote call (function_handler) as the scheduler sees it: its terminal
\* status is stored as the call's completion marker and, with the rabbitmq
\* monitor, published on the job's exchange; _send_status_rabbitmq publishes
\* again when an attempt fails after basic_publish, so the channel can carry
\* the same terminal message several times.
\* ------------------------------------------------------------------------
PublishEnd(j, i, copies) ==
    IF rabbitmq_monitor
    THEN [channel EXCEPT ![j] = @ (+) [m \in {<<i, "__end__">>} |-> copies]]
    ELSE channel

CallComplete(j, i, copies) ==
    /\ callst[j][i] = "running"
    /\ callst' = [callst EXCEPT ![j][i] = "done"]
    /\ markers' = [markers EXCEPT ![j] = @ \cup {i}]
    /\ channel' = PublishEnd(j, i, copies)
    /\ UNCHANGED <<workers, rabbitmq_monitor, remote_invoker, token_bucket_q,
                   pending_calls_q, running_flag, ongoing_activations, invokers,
                   wk, tasks, mainpc, njobs, nstops, job, futures, run, mon,
                   rejectsLeft, cleaned_jobs, remoteSt, futVars, waitVars>>

\* ------------------------------------------------------------------------
\* JobMonitor
\* ------------------------------------------------------------------------

\* the monitor thread of job j is inside its loop
Monitoring(j) == mon[j].started /\ mon[j].done < job[j]

\* _job_monitoring_os: one round of the polling loop
MonitorPoll(j) ==
    /\ ~rabbitmq_monitor
    /\ Monitoring(j)
    /\ LET callids_done_in_job == markers[j]
           total_new_tokens == NewTokens(callids_done_in_job, mon[j].done)
       IN  /\ token_bucket_q' = token_bucket_q + Times(total_new_tokens)
           /\ mon' = [mon EXCEPT ![j].done = @ + total_new_tokens,
                                 ![j].issued = @ + Times(total_new_tokens),
                                 ![j].seen = @ \cup callids_done_in_job]
    /\ UNCHANGED <<workers, rabbitmq_monitor, remote_invoker, pending_calls_q,
                   running_flag, ongoing_activations, invokers, wk, tasks,
                   mainpc, njobs, nstops, job, futures, run, callst, markers, channel,
                   rejectsLeft, cleaned_jobs, remoteSt, futVars, waitVars>>

\* _job_monitoring_rabbitmq: callback(ch, method, properties, body) on one
\* message of the job's queue; stop_consuming once the counter equals
\* total_calls (Monitoring(j) is then false)
RabbitCallback(j, m) ==
    /\ rabbitmq_monitor
    /\ Monitoring(j)
    /\ BagIn(m, channel[j])
    /\ channel' = [channel EXCEPT ![j] = @ (-) SetToBag({m})]
    /\ IF m[2] = "__end__"
       THEN /\ token_bucket_q' = token_bucket_q + 1
            /\ mon' = [mon EXCEPT ![j].done = @ + 1,
                                  ![j].issued = @ + 1,
                                  ![j].issuedFor[m[1]] = @ + 1]
       ELSE UNCHANGED <<token_bucket_q, mon>>
    /\ UNCHANGED <<workers, rabbitmq_monitor, remote_invoker, pending_calls_q,
                   running_flag, ongoing_activations, invokers, wk, tasks,
                   mainpc, njobs, nstops, job, futures, run, callst, markers,
                   rejectsLeft, cleaned_jobs, remoteSt, futVars, waitVars>>

\* ------------------------------------------------------------------------
\* FunctionExecutor.clean as the monitors see it: the objects under the
\* job's prefix, the completion markers among them, are deleted, once per
\* job; wait() calls it as soon as one future of the job is done.
\* ------------------------------------------------------------------------
CleanJob(j) ==
    /\ mainpc = "idle"
    /\ j \notin cleaned_jobs
    /\ markers[j] # {}
    /\ markers' = [markers EXCEPT ![j] = {}]
    /\ cleaned_jobs' = cleaned_jobs \cup {j}
    /\ UNCHANGED <<workers, rabbitmq_monitor, remote_invoker, token_bucket_q,
                   pending_calls_q, running_flag, ongoing_activations, invokers,
                   wk, tasks, mainpc, njobs, nstops, job, futures, run, mon, callst,
                   channel, rejectsLeft, remoteSt, futVars, waitVars>>

\* ------------------------------------------------------------------------
\* The scheduler's specifications
\* ------------------------------------------------------------------------
Caller ==
    \/ \E n \in 1..MaxCalls, verOK \in BOOLEAN : RunBegin(n, verOK)
    \/ RunFinish
    \/ StopFlag
    \/ StopPush
    \/ StopDrain

Invocations ==
    \/ \E t \in BagToSet(tasks) : InvokeAccept(t)
    \/ \E t \in BagToSet(tasks) : InvokeReject(t)
    \/ \E j \in JobIds, a \in BOOLEAN : InvokeRemote(j, a)

Workers ==
    \/ WTakeToken
    \/ WTakeEntry
    \/ \E e \in BagToSet(wk.held) : WCheck(e)

Next ==
    \/ Caller
    \/ Invocations
    \/ Workers
    \/ \E j \in JobIds, i \in CallIdx : CallComplete(j, i, 1)
    \/ \E j \in JobIds : MonitorPoll(j)

Spec == Init /\ [][Next]_vars

\* the scheduler next to a caller that also cleans jobs
CleanNext ==
    \/ Next
    \/ \E j \in JobIds : CleanJob(j)

CleanSpec == Init /\ [][CleanNext]_vars

\* the scheduler with the rabbitmq monitor
RabbitInit == SchedInit(TRUE) /\ FutIdle /\ WaitIdle

RabbitNext ==
    \/ Caller
    \/ Invocations
    \/ Workers
    \/ \E j \in JobIds, i \in CallIdx, copies \in 1..MaxDup : CallComplete(j, i, copies)
    \/ \E j \in JobIds, i \in CallIdx, ty \in {"__init__", "__end__"} :
           RabbitCallback(j, <<i, ty>>)

RabbitSpec == RabbitInit /\ [][RabbitNext]_vars

\* the threads of the scheduler run whenever they can: a worker that has a
\* token or an entry to take takes it, a submitted invocation gets its
\* answer, a running call completes, a monitor polls, and the caller, once
\* inside run() or stop(), goes on to the end of the method
Fairness ==
    /\ WF_vars(WTakeToken)
    /\ WF_vars(WTakeEntry)
    /\ WF_vars(\E e \in BagToSet(wk.held) : WCheck(e))
    /\ WF_vars(\E t \in BagToSet(tasks) : InvokeAccept(t) \/ InvokeReject(t))
    /\ WF_vars(\E j \in JobIds, a \in BOOLEAN : InvokeRemote(j, a))
    /\ WF_vars(\E j \in JobIds, i \in CallIdx : CallComplete(j, i, 1))
    /\ WF_vars(\E j \in JobIds : MonitorPoll(j))
    /\ WF_vars(RunFinish)
    /\ WF_vars(StopPush)
    /\ WF_vars(StopDrain)

FairSpec == Init /\ [][Next]_vars /\ Fairness

\* ------------------------------------------------------------------------
\* ResponseFuture.status and ResponseFuture.result
\* ------------------------------------------------------------------------

\* status(): the message decoded from the sentinel in the exception's args
DecodeMsg_swapped(code) ==
    CASE code = "WRONGVERSION" -> "PyWren version mismatch"
      [] code = "OUTATIME" -> "Process exceeded maximum memory and was killed"
      [] code = "OUTOFMEMORY" -> "Process ran out of time and was killed"
      [] OTHER -> "None"
DecodeMsg(code) ==
    CASE code = "WRONGVERSION" -> "PyWren version mismatch"
      [] code = "OUTATIME" -> "Process ran out of time and was killed"
      [] code = "OUTOFMEMORY" -> "Process exceeded maximum memory and was killed"
      [] OTHER -> "None"

Outcome(f, raised, msg, ret) == [f |-> f, raised |-> raised, msg |-> msg, ret |-> ret]

\* result() on a future in Success: return self._return_val
CachedValue_requery(f) ==
    Outcome([f EXCEPT !.output_query_count = @ + 1], "none", "None", f.return_val)
CachedValue(f) == Outcome(f, "none", "None", f.return_val)

\* result(): how many times get_call_output is called: once, and again while
\* nothing came back and output_query_count < GET_RESULT_MAX_RETRIES; out is
\* what the store holds, late the reads that come before it shows up
Reads_oneMore(count, out, late) ==
    IF out = "absent"
    THEN Max(1, GET_RESULT_MAX_RETRIES + 1 - count)
    ELSE 1 + Min(late, Max(0, GET_RESULT_MAX_RETRIES - count - 1))
Reads(count, out, late) ==
    IF out = "absent"
    THEN Max(1, GET_RESULT_MAX_RETRIES - count)
    ELSE 1 + Min(late, Max(0, GET_RESULT_MAX_RETRIES - count - 1))

\* result(), from "call_output_time = time.time()" to the end
FetchOutput(f, throw, out, late) ==
    LET f1 == [f EXCEPT !.output_query_count = @ + Reads(@, out, late)]
    IN  IF out = "absent"
        THEN IF throw
             THEN Outcome(f1, "OutputUnavailable", "None", "None")
             ELSE Outcome([f1 EXCEPT !.state = "Error"], "none", "None", "None")
        ELSE IF out = "futures"
        THEN Outcome([f1 EXCEPT !.new_futures = "futures", !.state = "Futures"],
                     "none", "None", "futures")
        ELSE Outcome([f1 EXCEPT !.return_val = "value", !.state = "Success"],
                     "none", "None", "value")

\* result() called by status() on a status that announces new futures: the
\* future is Ready or Success then, so the status() that result() calls
\* returns the cached status at once
ResultInStatus(f, throw, out, late) ==
    IF f.state = "Success"
    THEN Outcome(f, "none", "None", f.return_val)
    ELSE FetchOutput(f, throw, out, late)

\* status() and result() on a future in state New:
\* raise ValueError("task not yet invoked")
NotInvoked_polls(f) ==
    Outcome([f EXCEPT !.status_query_count = @ + 1, !.state = "Invoked"],
            "ValueError", "task not yet invoked", "None")
NotInvoked(f) == Outcome(f, "ValueError", "task not yet invoked", "None")

\* status() on a terminal status without exception: Ready, and Success with
\* produce_output = False when the status has no result
Settled_ready(f, cs) == [f EXCEPT !.state = "Ready"]
Settled(f, cs) ==
    IF cs.result
    THEN [f EXCEPT !.state = "Ready"]
    ELSE [f EXCEPT !.state = "Success", !.produce_output = FALSE]

\* status(throw_except): st is what get_call_status returns in the end,
\* polls the number of times it is called
StatusOf(f, throw, st, polls, out, late) ==
    IF f.state = "New"
    THEN NotInvoked(f)
    ELSE IF f.state \in {"Ready", "Success"}
    THEN Outcome(f, "none", "None", "call_status")
    ELSE
    LET f1 == IF f.call_status = NoStatus
              THEN [f EXCEPT !.call_status = st, !.status_query_count = @ + polls]
              ELSE f
        cs == f1.call_status
    IN  IF cs.type = "__init__"
        THEN Outcome([f1 EXCEPT !.state = "Running"], "none", "None", "call_status")
        ELSE IF cs.exception
        THEN LET f2 == [f1 EXCEPT !.state = "Error", !.exception = cs.exc]
             IN  IF throw
                 THEN Outcome(f2, cs.exc, "None", "None")
                 ELSE Outcome(f2, "FunctionException", DecodeMsg(cs.exc), "None")
        ELSE
        LET f2 == Settled(f1, cs)
        IN  IF cs.new_futures
            THEN LET r == ResultInStatus(f2, throw, out, late)
                 IN  IF r.raised # "none" THEN r
                     ELSE Outcome(r.f, "none", "None", "call_status")
            ELSE Outcome(f2, "none", "None", "call_status")

\* result(throw_except)
ResultOf(f, throw, st, polls, out, late) ==
    IF f.state = "New"
    THEN NotInvoked(f)
    ELSE IF f.state = "Success"
    THEN CachedValue(f)
    ELSE IF f.state = "Futures"
    THEN Outcome(f, "none", "None", f.new_futures)
    ELSE IF f.state = "Error"
    THEN \* reraise(*self._exception) fails on the Exception() the constructor
         \* left there; FunctionException(...) is called without exc_msg
         IF throw /\ f.exception # "unset"
         THEN Outcome(f, f.exception, "None", "None")
         ELSE Outcome(f, "TypeError", "None", "None")
    ELSE
    LET s == StatusOf(f, throw, st, polls, out, late)
    IN  IF s.raised # "none" THEN s
        ELSE
        LET f1 == IF ~s.f.produce_output THEN [s.f EXCEPT !.state = "Success"] ELSE s.f
        IN  IF f1.state = "Success" THEN Outcome(f1, "none", "None", f1.return_val)
            ELSE IF f1.state = "Futures" THEN Outcome(f1, "none", "None", f1.new_futures)
            ELSE FetchOutput(f1, throw, out, late)

\* status() and result() come back only once get_call_status has returned a
\* status: they poll for it without bound
StatusReturns(f) ==
    \/ f.state \in {"New", "Ready", "Success"}
    \/ f.call_status # NoStatus
    \/ store.status # NoStatus

ResultReturns(f) ==
    \/ f.state \in {"New", "Success", "Futures", "Error"}
    \/ StatusReturns(f)

\* run(): fut._set_state(ResponseFuture.State.Invoked)
FInvoke ==
    /\ fut.state = "New"
    /\ fut' = [fut EXCEPT !.state = "Invoked"]
    /\ UNCHANGED <<schedVars, waitVars, flast, store>>

FStatus(throw, misses, late) ==
    /\ StatusReturns(fut)
    /\ fut.output_query_count < MaxQueries
    /\ LET r == StatusOf(fut, throw, store.status, 1 + misses, store.output, late)
       IN  /\ fut' = r.f
           /\ flast' = [op |-> "status", throw |-> throw, pre |-> fut.state,
                        seq |-> 1 - flast.seq,
                        raised |-> r.raised, msg |-> r.msg, ret |-> r.ret]
    /\ UNCHANGED <<schedVars, waitVars, store>>

FResult(throw, misses, late) ==
    /\ ResultReturns(fut)
    /\ fut.output_query_count < MaxQueries
    /\ LET r == ResultOf(fut, throw, store.status, 1 + misses, store.output, late)
       IN  /\ fut' = r.f
           /\ flast' = [op |-> "result", throw |-> throw, pre |-> fut.state,
                        seq |-> 1 - flast.seq,
                        raised |-> r.raised, msg |-> r.msg, ret |-> r.ret]
    /\ UNCHANGED <<schedVars, waitVars, store>>

\* cancel(): raise NotImplementedError("Cannot cancel dispatched jobs")
CancelOf_quiet(f) == Outcome([f EXCEPT !.state = "Error"], "none", "None", "None")
CancelOf(f) == Outcome(f, "NotImplementedError", "Cannot cancel dispatched jobs", "None")

FCancel ==
    /\ LET r == CancelOf(fut)
       IN  /\ fut' = r.f
           /\ flast' = [op |-> "cancel", throw |-> FALSE, pre |-> fut.state,
                        seq |-> 1 - flast.seq,
                        raised |-> r.raised, msg |-> r.msg, ret |-> r.ret]
    /\ UNCHANGED <<schedVars, waitVars, store>>

\* function_handler: call_status.send('__init__'), not sent on a version mismatch
StoreWriteInit ==
    /\ store.status = NoStatus
    /\ store.outcome # "WRONGVERSION"
    /\ store' = [store EXCEPT !.status = InitBlob]
    /\ UNCHANGED <<schedVars, waitVars, fut, flast>>

\* function_handler: call_status.send('__end__')
StoreWriteEnd ==
    /\ store.status.type # "__end__"
    /\ store' = [store EXCEPT !.status = EndBlob(store.outcome)]
    /\ UNCHANGED <<schedVars, waitVars, fut, flast>>

\* the output object of a call that has a result becomes readable
StoreWriteOutput ==
    /\ store.outcome \in {"value", "futures"}
    /\ store.output = "absent"
    /\ store' = [store EXCEPT !.output = store.outcome]
    /\ UNCHANGED <<schedVars, waitVars, fut, flast>>

\* ------------------------------------------------------------------------
\* function_handler and CallStatus (runtime/function_handler/handler.py)
\* ------------------------------------------------------------------------

\* k copies of x
Copies(x, k) == [n \in 1..k |-> x]

\* CallStatus._send_status_os: the empty init object for '__init__', the
\* status object for '__end__'
SendStatusOs_again(st, type) ==
    IF type = "__init__"
    THEN [st EXCEPT !.puts = Append(@, "init"), !.status = InitBlob]
    ELSE [st EXCEPT !.puts = @ \o <<"status", "status">>, !.status = EndBlob(st.outcome)]
SendStatusOs(st, type) ==
    IF type = "__init__"
    THEN [st EXCEPT !.puts = Append(@, "init"), !.status = InitBlob]
    ELSE [st EXCEPT !.puts = Append(@, "status"), !.status = EndBlob(st.outcome)]

\* CallStatus.send(event_type); copies is how many times the retry loop of
\* _send_status_rabbitmq gets the message published
Send(st, type, copies) ==
    LET s1 == [st EXCEPT !.sent = Append(@, type)]
        s2 == IF st.store_status /\ rabbitmq_monitor
              THEN [s1 EXCEPT !.pubs = @ \o Copies(type, copies)]
              ELSE s1
    IN  IF st.store_status /\ (~rabbitmq_monitor \/ type = "__end__")
        THEN SendStatusOs(s2, type)
        ELSE s2

\* function_handler: the version test and call_status.send('__init__')
HandlerBegin(copies) ==
    /\ store.hpc = "start"
    /\ store' = IF store.outcome = "WRONGVERSION"
                THEN [store EXCEPT !.hpc = "except"]
                ELSE [Send(store, "__init__", copies) EXCEPT !.hpc = "run"]
    /\ UNCHANGED <<schedVars, waitVars, fut, flast>>

\* function_handler: the jobrunner process runs; it is killed after
\* execution_timeout or found dead without a message (both raise), else its
\* stats, the user's exception among them, are copied into the status
HandlerRun ==
    /\ store.hpc = "run"
    /\ store' = [store EXCEPT !.hpc = IF store.outcome \in {"OUTATIME", "OUTOFMEMORY"}
                                      THEN "except" ELSE "finally"]
    /\ UNCHANGED <<schedVars, waitVars, fut, flast>>

\* function_handler: except Exception; pickling the exception may itself
\* raise, and the exception then leaves the handler after the finally block
HandlerExcept(pickled) ==
    /\ store.hpc = "except"
    /\ store' = [store EXCEPT !.hpc = "finally", !.escaped = ~pickled]
    /\ UNCHANGED <<schedVars, waitVars, fut, flast>>

\* function_handler: finally: call_status.send('__end__')
HandlerFinally(copies) ==
    /\ store.hpc = "finally"
    /\ store' = [Send(store, "__end__", copies) EXCEPT !.hpc = "done"]
    /\ UNCHANGED <<schedVars, waitVars, fut, flast>>

HandlerInit ==
    /\ SchedInit(TRUE) \/ SchedInit(FALSE)
    /\ fut = NoFut
    /\ flast = NoCall
    /\ store \in {[NoStore EXCEPT !.outcome = o, !.store_status = ss] :
                     o \in Outcomes, ss \in BOOLEAN}
    /\ WaitIdle

HandlerNext ==
    \/ \E copies \in 0..MaxDup : HandlerBegin(copies)
    \/ HandlerRun
    \/ \E pickled \in BOOLEAN : HandlerExcept(pickled)
    \/ \E copies \in 0..MaxDup : HandlerFinally(copies)

HandlerSpec == HandlerInit /\ [][HandlerNext]_vars

FutInit ==
    /\ SchedInit(FALSE)
    /\ workers = 1
    /\ remote_invoker = FALSE
    /\ fut = NoFut
    /\ flast = NoCall
    /\ store \in {[NoStore EXCEPT !.outcome = o] : o \in Outcomes}
    /\ WaitIdle

FutNext ==
    \/ FInvoke
    \/ \E throw \in BOOLEAN, misses \in 0..MaxMiss, late \in 0..MaxMiss :
           FStatus(throw, misses, late)
    \/ \E throw \in BOOLEAN, misses \in 0..MaxMiss, late \in 0..MaxMiss :
           FResult(throw, misses, late)
    \/ FCancel
    \/ StoreWriteInit
    \/ StoreWriteEnd
    \/ StoreWriteOutput

FutSpec == FutInit /\ [][FutNext]_vars

\* C2: once a future is in Success, Futures or Error, no status() or
\* result() call changes its state.
C2_TerminalStatesStay ==
    [][fut.state \in {"Success", "Futures", "Error"} => fut'.state = fut.state]_vars

\* ------------------------------------------------------------------------
\* FunctionExecutor: lidar_map, wait, clean
\* ------------------------------------------------------------------------

\* ResponseFuture.done and ResponseFuture.ready
FDone(f) == f.state \in {"Success", "Futures", "Error"}
FReady(f) == f.state \in {"Ready", "Futures", "Error"}

\* self.futures: the futures lidar_map has added
HasFuture(j, i) == efut[j][i].state # "New"
AllFutures == {p \in JobIds \X CallIdx : HasFuture(p[1], p[2])}

\* wait(): futures = self.futures if not fs else fs; sel = 0 stands for no
\* fs, sel = j for fs = the futures of job j
Selected(sel) == {p \in AllFutures : sel = 0 \/ p[1] = sel}

\* wait(): f.done with download_results, f.ready or f.done without
Complete(f, download) == IF download THEN FDone(f) ELSE FReady(f) \/ FDone(f)

FsDone(sel, download) ==
    {p \in Selected(sel) : Complete(efut[p[1]][p[2]], download)}
FsNotDone(sel, download) ==
    {p \in Selected(sel) : ~Complete(efut[p[1]][p[2]], download)}

\* wait(): len(not_dones_call_ids) in the TimeoutError and KeyboardInterrupt
\* handlers; ef holds the futures as they are when the handler runs
NotDoneCount_doneOnly(ef, sel, download) ==
    Cardinality({p \in Selected(sel) : ~FDone(ef[p[1]][p[2]])})
NotDoneCount(ef, sel, download) ==
    IF download
    THEN Cardinality({p \in Selected(sel) : ~FDone(ef[p[1]][p[2]])})
    ELSE Cardinality({p \in Selected(sel) :
                         ~FReady(ef[p[1]][p[2]]) /\ ~FDone(ef[p[1]][p[2]])})

\* lidar_map: futures = self.invoker.run(job); self.futures.extend(futures)
ExtendPending == run.returned /\ run.id > 0 /\ ~HasFuture(run.id, 0)

MapExtend ==
    /\ mainpc = "idle"
    /\ ExtendPending
    /\ efut' = [efut EXCEPT ![run.id] =
                   [i \in CallIdx |->
                       IF i < Len(futures)
                       THEN [NoFut EXCEPT !.state = futures[i + 1].state]
                       ELSE NoFut]]
    /\ UNCHANGED <<schedVars, futVars, wt, deletions, nwaits>>

\* the caller is between two calls on the executor
CallerFree == mainpc = "idle" /\ wt.pc = "none" /\ ~ExtendPending

\* wait(): which handler the exception leaving wait_storage meets, and
\* where wait() goes on: "except Exception" stops, cleans and raises again,
\* everything else goes to the finally block
AfterPoll_skipStop(kind) ==
    IF kind = "other" THEN "exc_stop"
    ELSE IF kind = "normal" THEN "fin_clean" ELSE "fin_stop"
AfterPoll(kind) == IF kind = "other" THEN "exc_stop" ELSE "fin_stop"

\* wait(): what leaves wait() in the end: "raise e" of the except Exception
\* handler; FunctionException, TimeoutError, KeyboardInterrupt are not raised
\* again
Reraised(kind, exc) == IF kind = "other" THEN exc ELSE "none"

\* wait(): the except clause that takes an exception leaving wait_storage:
\* FunctionException, TimeoutError, or the last one, Exception
Handler(exc) ==
    CASE exc = "FunctionException" -> "fe"
      [] exc = "TimeoutError" -> "timeout"
      [] OTHER -> "other"

\* the outcomes of the calls wait() looks at
WaitOutcomes == {"value", "noresult", "OUTATIME", "TimeoutError"}

\* wait(): up to the try block
WaitBegin(throw, download, when, sel) ==
    /\ CallerFree
    /\ nwaits < MaxWaits
    /\ Selected(sel) # {}
    /\ nwaits' = nwaits + 1
    /\ mainpc' = "wait"
    /\ wt' = [NoWait EXCEPT !.pc = "poll", !.throw = throw, !.download = download,
                            !.when = when, !.sel = sel]
    /\ UNCHANGED <<workers, rabbitmq_monitor, remote_invoker, token_bucket_q,
                   pending_calls_q, running_flag, ongoing_activations, invokers,
                   wk, tasks, njobs, nstops, job, futures, run, mon, callst,
                   markers, channel, rejectsLeft, cleaned_jobs, remoteSt,
                   futVars, efut, deletions>>

\* wait_storage: status() (result() with download_results) on one future
\* that is not complete and whose status object is in the store (or was read
\* before); o is how the call ended
WaitPoll(j, i, o) ==
    /\ wt.pc = "poll"
    /\ <<j, i>> \in FsNotDone(wt.sel, wt.download)
    /\ i \in markers[j] \/ efut[j][i].call_status # NoStatus
    /\ LET f == efut[j][i]
           r == IF wt.download
                THEN ResultOf(f, wt.throw, EndBlob(o), 1, "value", 0)
                ELSE StatusOf(f, wt.throw, EndBlob(o), 1, "value", 0)
           kind == Handler(r.raised)
       IN  /\ efut' = [efut EXCEPT ![j][i] = r.f]
           /\ wt' = IF r.raised = "none" THEN wt
                    ELSE [wt EXCEPT !.kind = kind, !.raised = r.raised,
                                    !.remote = r.f.exception,
                                    !.count =
                                        IF kind = "timeout"
                                        THEN NotDoneCount([efut EXCEPT ![j][i] = r.f],
                                                          wt.sel, wt.download)
                                        ELSE 0,
                                    !.pc = AfterPoll(kind)]
    /\ UNCHANGED <<schedVars, futVars, deletions, nwaits>>

\* wait_storage returns: the completion condition of return_when holds
WaitPolled ==
    /\ wt.pc = "poll"
    /\ IF wt.when = "ALL"
       THEN FsNotDone(wt.sel, wt.download) = {}
       ELSE FsDone(wt.sel, wt.download) # {}
    /\ wt' = [wt EXCEPT !.kind = "normal", !.pc = AfterPoll("normal")]
    /\ UNCHANGED <<schedVars, futVars, efut, deletions, nwaits>>

\* the calls wait() is waiting for that an activation is running
InFlight(sel, download) ==
    {p \in FsNotDone(sel, download) : callst[p[1]][p[2]] = "running"}

\* wait() was given a timeout and its alarm goes off inside wait_storage:
\* except TimeoutError
WaitTimeout ==
    /\ wt.pc = "poll"
    /\ wt' = [wt EXCEPT !.kind = "timeout", !.pc = AfterPoll("timeout"),
                        !.count = NotDoneCount(efut, wt.sel, wt.download),
                        !.late = InFlight(wt.sel, wt.download)]
    /\ UNCHANGED <<schedVars, futVars, efut, deletions, nwaits>>

\* the user interrupts wait_storage: except KeyboardInterrupt
WaitInterrupt ==
    /\ wt.pc = "poll"
    /\ wt' = [wt EXCEPT !.kind = "cancel", !.pc = AfterPoll("cancel"),
                        !.count = NotDoneCount(efut, wt.sel, wt.download)]
    /\ UNCHANGED <<schedVars, futVars, efut, deletions, nwaits>>

\* self.invoker.stop() in the except Exception handler and in the finally
\* block: the flag goes down, a token and a (None, None) pair are put for
\* every worker, and the pending queue is emptied
WaitStop ==
    /\ wt.pc \in {"exc_stop", "fin_stop"}
    /\ running_flag' = 0
    /\ nstops' = nstops + 1
    /\ token_bucket_q' = token_bucket_q + invokers
    /\ pending_calls_q' = <<>>
    /\ wt' = [wt EXCEPT !.stops = @ + 1,
                        !.pc = IF wt.pc = "exc_stop" THEN "exc_clean" ELSE "fin_clean"]
    /\ UNCHANGED <<workers, rabbitmq_monitor, remote_invoker,
                   ongoing_activations, invokers, wk, tasks, mainpc,
                   njobs, job, futures, run, mon, callst, markers, channel,
                   rejectsLeft, cleaned_jobs, remoteSt, futVars, efut,
                   deletions, nwaits>>

\* lidar_map whose select_runtime raises: the job id is used up, nothing
\* else has happened
MapRejected(vers) ==
    /\ CallerFree
    /\ njobs < MaxJobs
    /\ SelectRuntime(vers) = "raise"
    /\ njobs' = njobs + 1
    /\ run' = [NoRun EXCEPT !.id = njobs + 1, !.raised = TRUE, !.vers = vers]
    /\ UNCHANGED <<workers, rabbitmq_monitor, remote_invoker, token_bucket_q,
                   pending_calls_q, running_flag, ongoing_activations, invokers,
                   wk, tasks, mainpc, nstops, job, futures, mon, callst,
                   markers, channel, rejectsLeft, cleaned_jobs, remoteSt,
                   futVars, waitVars>>

\* lidar_map: select_runtime, then run() of the job made with its metadata
MapCall(n, vers) ==
    \/ MapRejected(vers)
    \/ /\ CallerFree
       /\ SelectRuntime(vers) # "raise"
       /\ RunMapped(n, TRUE, vers)

\* clean(): present_jobs; fsel = 0 stands for no fs
PresentJobs(fsel) ==
    IF fsel = 0
    THEN {j \in JobIds : \E i \in CallIdx :
             HasFuture(j, i) /\ (FDone(efut[j][i]) \/ ~efut[j][i].produce_output)}
    ELSE {j \in JobIds : j = fsel /\ \E i \in CallIdx : HasFuture(j, i)}

\* clean(): jobs_to_clean = present_jobs - self.cleaned_jobs
JobsToClean_all(present) == present
JobsToClean(present) == present \ cleaned_jobs

\* clean(): the deletion of the objects of every job to clean is started and
\* the jobs are added to self.cleaned_jobs
Cleaned(fsel) ==
    LET jobs_to_clean == JobsToClean(PresentJobs(fsel))
    IN  /\ deletions' = [j \in JobIds |->
                            IF j \in jobs_to_clean THEN deletions[j] + 1
                            ELSE deletions[j]]
        /\ markers' = [j \in JobIds |->
                          IF j \in jobs_to_clean THEN {} ELSE markers[j]]
        /\ cleaned_jobs' = cleaned_jobs \cup jobs_to_clean

\* wait(): self.clean() after stop() has returned: in the except Exception
\* handler, followed by "raise e" into the finally block; in the finally
\* block (data_cleaner is on), followed by the classification of the futures
\* and the return, or by the exception raised again
WaitClean ==
    /\ wt.pc \in {"exc_clean", "fin_clean"}
    /\ Cleaned(0)
    /\ IF wt.pc = "exc_clean"
       THEN /\ wt' = [wt EXCEPT !.pc = "fin_stop",
                                !.skipped = @ \cup (PresentJobs(0) \cap cleaned_jobs)]
            /\ mainpc' = "wait"
       ELSE /\ wt' = [NoWait EXCEPT
                         !.pc = IF wt.get /\ Reraised(wt.kind, wt.raised) = "none"
                                THEN "collect" ELSE "none",
                         !.get = wt.get, !.rev = wt.rev,
                         !.sel = IF wt.get THEN wt.sel ELSE 0,
                         !.given = wt.given, !.tracked = wt.tracked,
                         !.late = wt.late,
                         !.kind = wt.kind, !.count = wt.count, !.stops = wt.stops,
                         !.throw = wt.throw, !.remote = wt.remote,
                         !.skipped = wt.skipped \cup (PresentJobs(0) \cap cleaned_jobs),
                         !.raised = Reraised(wt.kind, wt.raised),
                         !.done = IF Reraised(wt.kind, wt.raised) = "none"
                                  THEN FsDone(wt.sel, wt.download) ELSE {},
                         !.notdone = IF Reraised(wt.kind, wt.raised) = "none"
                                     THEN FsNotDone(wt.sel, wt.download) ELSE {}]
            /\ mainpc' = IF wt.get /\ Reraised(wt.kind, wt.raised) = "none"
                         THEN "wait" ELSE "idle"
    /\ UNCHANGED <<workers, rabbitmq_monitor, remote_invoker, token_bucket_q,
                   pending_calls_q, running_flag, ongoing_activations, invokers,
                   wk, tasks, njobs, nstops, job, futures, run, mon, callst,
                   channel, rejectsLeft, remoteSt, futVars, efut, nwaits>>

\* clean(fs) called by the user
ExecClean(fsel) ==
    /\ CallerFree
    /\ nwaits < MaxWaits
    /\ Selected(fsel) # {}
    /\ nwaits' = nwaits + 1
    /\ Cleaned(fsel)
    /\ UNCHANGED <<workers, rabbitmq_monitor, remote_invoker, token_bucket_q,
                   pending_calls_q, running_flag, ongoing_activations, invokers,
                   wk, tasks, mainpc, njobs, nstops, job, futures, run, mon,
                   callst, channel, rejectsLeft, remoteSt, futVars, efut, wt>>

\* the executor's lidar_map calls over the scheduler
MapNext ==
    \/ \E n \in 1..MaxCalls, vers \in HandlerVersions : MapCall(n, vers)
    \/ RunFinish
    \/ MapExtend
    \/ Invocations
    \/ Workers
    \/ \E j \in JobIds, i \in CallIdx : CallComplete(j, i, 1)
    \/ \E j \in JobIds : MonitorPoll(j)

MapSpec == Init /\ [][MapNext]_vars

WaitInit ==
    /\ SchedInit(FALSE)
    /\ remote_invoker = FALSE
    /\ FutIdle
    /\ WaitIdle

\* the user of the executor: lidar_map, wait, clean
WaitCaller ==
    \/ \E n \in 1..MaxCalls : CallerFree /\ RunBegin(n, TRUE)
    \/ RunFinish
    \/ MapExtend
    \/ \E throw \in BOOLEAN, download \in BOOLEAN, when \in {"ALL", "ANY"},
          sel \in 0..MaxJobs :
           WaitBegin(throw, download, when, sel)
    \/ \E j \in JobIds, i \in CallIdx, o \in WaitOutcomes : WaitPoll(j, i, o)
    \/ WaitPolled
    \/ WaitTimeout
    \/ WaitInterrupt
    \/ WaitStop
    \/ WaitClean
    \/ \E fsel \in 0..MaxJobs : ExecClean(fsel)

WaitNext ==
    \/ WaitCaller
    \/ \E t \in BagToSet(tasks) : InvokeAccept(t)
    \/ Workers
    \/ \E j \in JobIds, i \in CallIdx : CallComplete(j, i, 1)
    \/ \E j \in JobIds : MonitorPoll(j)

WaitSpec == WaitInit /\ [][WaitNext]_vars

\* A caller that maps jobs and waits for all its futures with
\* wait(return_when=ALL_COMPLETED), every invocation being accepted and every
\* call ending without an exception; the threads of the scheduler, the remote
\* calls and wait() itself go on whenever they can.
CallOutcomes == {"value", "noresult"}

MapWaitNext ==
    \/ \E n \in 1..MaxCalls : CallerFree /\ RunBegin(n, TRUE)
    \/ RunFinish
    \/ MapExtend
    \/ \E t \in BagToSet(tasks) : InvokeAccept(t)
    \/ Workers
    \/ \E j \in JobIds, i \in CallIdx : CallComplete(j, i, 1)
    \/ \E j \in JobIds : MonitorPoll(j)
    \/ \E throw \in BOOLEAN, download \in BOOLEAN : WaitBegin(throw, download, "ALL", 0)
    \/ \E j \in JobIds, i \in CallIdx, o \in CallOutcomes : WaitPoll(j, i, o)
    \/ WaitPolled
    \/ WaitStop
    \/ WaitClean

MapWaitFairness ==
    /\ WF_vars(RunFinish)
    /\ WF_vars(MapExtend)
    /\ WF_vars(\E t \in BagToSet(tasks) : InvokeAccept(t))
    /\ WF_vars(WTakeToken)
    /\ WF_vars(WTakeEntry)
    /\ WF_vars(\E e \in BagToSet(wk.held) : WCheck(e))
    /\ WF_vars(\E j \in JobIds, i \in CallIdx : CallComplete(j, i, 1))
    /\ WF_vars(\E j \in JobIds : MonitorPoll(j))
    /\ WF_vars(\E j \in JobIds, i \in CallIdx, o \in CallOutcomes : WaitPoll(j, i, o))
    /\ WF_vars(WaitPolled)
    /\ WF_vars(WaitStop)
    /\ WF_vars(WaitClean)

MapWaitSpec == WaitInit /\ [][MapWaitNext]_vars /\ MapWaitFairness

\* a step that is one status() / result() call on the future
StatusCall == flast'.seq # flast.seq /\ flast'.op = "status"
ResultCall == flast'.seq # flast.seq /\ flast'.op = "result"

\* C17: a result() call on a future in Success returns the cached value (the
\* same one the result() call before it returned), reads neither status nor
\* output, and leaves the state and the poll counters as they are.
C17_SuccessResultCached ==
    [][(fut.state = "Success" /\ ResultCall) =>
          /\ fut' = fut
          /\ flast'.raised = "none"
          /\ flast'.ret = fut.return_val
          /\ (flast.op = "result" /\ flast.raised = "none" => flast'.ret = flast.ret)]_vars

\* result() was called on a future that had fetched its value before
C17_Witness ==
    /\ flast.op = "result" /\ flast.pre = "Success"
    /\ fut.state = "Success" /\ fut.return_val = "value"
    /\ fut.output_query_count > 0

\* C18: result() on a Ready future whose output is not in the store reads the
\* output at most GET_RESULT_MAX_RETRIES times and ends: raising the
\* output-unavailable exception when throw_except is set, otherwise setting
\* the state Error and returning None without raising.
C18_OutputReadsBounded ==
    [][(fut.state = "Ready" /\ store.output = "absent" /\ ResultCall) =>
          /\ fut'.output_query_count - fut.output_query_count
                 \in 1..GET_RESULT_MAX_RETRIES
          /\ flast'.throw => flast'.raised = "OutputUnavailable"
          /\ ~flast'.throw => /\ flast'.raised = "none"
                              /\ flast'.ret = "None"
                              /\ fut'.state = "Error"]_vars

\* result(throw_except=False) gave up on a Ready future after all its reads
C18_Witness ==
    /\ flast.op = "result" /\ flast.pre = "Ready" /\ ~flast.throw
    /\ fut.state = "Error"
    /\ fut.output_query_count = GET_RESULT_MAX_RETRIES

\* the text status() is to give for each sentinel
SentinelText(code) ==
    CASE code = "OUTATIME" -> "Process ran out of time and was killed"
      [] code = "OUTOFMEMORY" -> "Process exceeded maximum memory and was killed"
      [] code = "WRONGVERSION" -> "PyWren version mismatch"
      [] OTHER -> "None"

\* C19: a status() call that finds a terminal status with the exception flag
\* sets the state Error and raises: the call's own exception when
\* throw_except is set, otherwise a FunctionException whose message is the
\* text of the sentinel.
C19_ExceptionStatusRaises ==
    [][(StatusCall /\ fut.state \notin {"New", "Ready", "Success"}
          /\ fut'.call_status.type = "__end__" /\ fut'.call_status.exception) =>
          /\ fut'.state = "Error"
          /\ flast'.throw => flast'.raised = fut'.call_status.exc
          /\ ~flast'.throw => /\ flast'.raised = "FunctionException"
                              /\ flast'.msg = SentinelText(fut'.call_status.exc)]_vars

\* status(throw_except=False) has reported a call that ran out of time
C19_Witness ==
    /\ flast.op = "status" /\ ~flast.throw
    /\ flast.raised = "FunctionException"
    /\ flast.msg = "Process ran out of time and was killed"
    /\ fut.state = "Error"

\* C20: a status() call on a Running future polls the store again: once the
\* terminal status is in the store, the call leaves the future in Ready,
\* Success, Futures or Error.
C20_RunningPollsAgain ==
    [][(fut.state = "Running" /\ store.status.type = "__end__" /\ StatusCall) =>
          fut'.state \in {"Ready", "Success", "Futures", "Error"}]_vars

\* the status a status() call works on: the cached one, else the store's
SeenStatus == IF fut.call_status = NoStatus THEN store.status ELSE fut.call_status

\* a status() call that gets as far as a terminal status without exception
StatusSeesSuccess ==
    /\ StatusCall
    /\ fut.state \notin {"New", "Ready", "Success"}
    /\ SeenStatus.type = "__end__" /\ ~SeenStatus.exception

\* C21 (as claimed): a status() call that finds a terminal status without
\* exception leaves the future Ready when the status has a result, and
\* Success when it has none.
C21_ReadyOrSuccess ==
    [][StatusSeesSuccess =>
          fut'.state = (IF SeenStatus.result THEN "Ready" ELSE "Success")]_vars

\* C21 (amended): a status() call that finds a terminal status without
\* exception leaves the future Success, with no output ever read, when the
\* status has no result (result() then returns None); Ready when it has a
\* result and announces no new futures; and when it announces new futures it
\* goes on to read the output as result() does: Futures once the output is
\* there, else the output-unavailable exception (throw_except) or Error.
C21_SettlesByStatus ==
    [][/\ StatusSeesSuccess =>
            /\ ~SeenStatus.result =>
                   /\ fut'.state = "Success" /\ ~fut'.produce_output
                   /\ fut'.output_query_count = fut.output_query_count
                   /\ flast'.raised = "none"
            /\ (SeenStatus.result /\ ~SeenStatus.new_futures) =>
                   /\ fut'.state = "Ready"
                   /\ fut'.output_query_count = fut.output_query_count
                   /\ flast'.raised = "none"
            /\ (SeenStatus.result /\ SeenStatus.new_futures) =>
                   /\ fut'.output_query_count > fut.output_query_count
                   /\ store.output # "absent" =>
                          fut'.state = "Futures" /\ flast'.raised = "none"
                   /\ (store.output = "absent" /\ flast'.throw) =>
                          fut'.state = "Ready" /\ flast'.raised = "OutputUnavailable"
                   /\ (store.output = "absent" /\ ~flast'.throw) =>
                          fut'.state = "Error" /\ flast'.raised = "none"
       /\ (ResultCall /\ ~fut'.produce_output) =>
            /\ fut'.state = "Success"
            /\ flast'.raised = "none" /\ flast'.ret = "None"
            /\ fut'.output_query_count = 0]_vars

\* status() made a future Success on a status without result, and a
\* result() call after it returned None without reading the output
C21_Witness ==
    /\ flast.op = "result" /\ flast.pre = "Success" /\ flast.ret = "None"
    /\ fut.state = "Success" /\ ~fut.produce_output
    /\ fut.status_query_count > 0 /\ fut.output_query_count = 0

\* C22: status() and result() on a future in state New raise ValueError
\* ("task not yet invoked"), read nothing from the store and leave every
\* field of the future as it is.
C22_NewRaisesInvalidState ==
    [][(fut.state = "New" /\ (StatusCall \/ ResultCall)) =>
          /\ flast'.raised = "ValueError"
          /\ fut' = fut]_vars

\* result() was called on a future that was never invoked, the status of
\* its call being in the store
C22_Witness ==
    /\ flast.op = "result" /\ flast.pre = "New"
    /\ flast.raised = "ValueError"
    /\ fut = NoFut
    /\ store.status # NoStatus

\* a step that is one cancel() call on the future
CancelCall == flast'.seq # flast.seq /\ flast'.op = "cancel"

\* C29: cancel() raises NotImplementedError in every state of the future and
\* leaves the future as it is.
C29_CancelUnsupported ==
    [][CancelCall =>
          /\ flast'.raised = "NotImplementedError"
          /\ fut' = fut]_vars

\* cancel() was called on a future whose call is running
C29_Witness ==
    /\ flast.op = "cancel" /\ flast.pre = "Running"
    /\ flast.raised = "NotImplementedError"
    /\ fut.state = "Running"

\* ------------------------------------------------------------------------
\* Claims about the scheduler
\* ------------------------------------------------------------------------

\* C1 (as claimed): in every reachable state the number of tokens in the
\* token bucket plus ongoing_activations is at most workers.  The sentinel
\* tokens of stop() are left out of the account: the states looked at are
\* those before any stop().
C1_TokensPlusOngoing ==
    nstops = 0 => token_bucket_q + ongoing_activations <= workers

\* C1 (amended): in every reachable state ongoing_activations is at most
\* workers; the tokens in the bucket are not counted against the budget.
C1_OngoingAtMostWorkers == ongoing_activations <= workers

\* a monitor has issued a token while the budget is fully used
C1_Witness ==
    /\ token_bucket_q > 0
    /\ ongoing_activations = workers
    /\ Alive > 0
    /\ \E j \in JobIds : mon[j].issued > 0

\* C3: the polling monitor issues exactly one token for each completion
\* marker it had not observed before, so the tokens issued for a job are as
\* many as the distinct call ids it has observed, all within
\* [0, total_calls), and never more than total_calls.
C3_OneTokenPerMarker ==
    \A j \in JobIds :
        /\ mon[j].issued = Cardinality(mon[j].seen)
        /\ mon[j].seen \subseteq 0..(job[j] - 1)
        /\ mon[j].issued <= job[j]

C5_RejectedEventuallyDispatched ==
    \A j \in JobIds : \A i \in CallIdx :
        (callst[j][i] = "rejected")
            ~> (callst[j][i] \in {"running", "done"} \/ nstops > 0)

\* C6: when invoke returns no activation id, the same (job, call_id) entry
\* is put at the back of the pending queue once, the entries already there
\* stay as they are, and neither run() nor the caller sees an error.
C6_RejectedReenqueuedOnce ==
    [][(rejectsLeft' < rejectsLeft /\ tasks' # tasks) =>
         \E t \in BagToSet(tasks) :
            /\ tasks' = tasks (-) SetToBag({t})
            /\ pending_calls_q' = Append(pending_calls_q, <<t[1], t[2]>>)
            /\ run'.raised = run.raised
            /\ mainpc' = mainpc]_vars

\* a rejected call is back on the pending queue behind other entries
C6_Witness ==
    \E k \in 2..Len(pending_calls_q) :
        /\ pending_calls_q[k] # Sentinel
        /\ callst[pending_calls_q[k][1]][ParseInt(pending_calls_q[k][2])] = "rejected"

\* the free slots run() had: max(0, workers - ongoing_activations), taken
\* after the stale-token drain
FreeSlots == Max(0, workers - run.evalOngoing)

\* C7: without remote fan-out run() invokes directly exactly the first
\* min(freeSlots, total_calls) call ids and enqueues exactly the others, each
\* once; with no free slot every call is enqueued and none invoked directly.
C7_DirectAndEnqueued ==
    (run.returned /\ ~run.remote) =>
        LET k == Min(FreeSlots, run.total)
        IN  /\ run.direct = 0..(k - 1)
            /\ Len(run.enq) = run.total - k
            /\ \A x \in 1..Len(run.enq) :
                  /\ run.enq[x][1] = run.id
                  /\ ParseInt(run.enq[x][2]) = k + x - 1
            /\ (FreeSlots = 0 => run.direct = {} /\ Len(run.enq) = run.total)

\* run() has returned after invoking some calls directly and enqueueing others
C7_Witness ==
    /\ run.returned /\ ~run.remote
    /\ run.direct # {}
    /\ run.enq # <<>>

\* C8: run() increases ongoing_activations by exactly the number of direct
\* invocations that obtained an activation id.
C8_CountsDispatchedOnly ==
    (run.returned /\ ~run.remote) => run.inc = Cardinality(run.ok)

\* C9: run() returns total_calls futures, the k-th one carrying the call id
\* k-1 written with five digits, every one in state Invoked.
C9_FuturesReturned ==
    run.returned =>
        /\ Len(futures) = run.total
        /\ \A k \in 1..Len(futures) :
              /\ futures[k].job_id = run.id
              /\ Len(futures[k].call_id) = PadWidth
              /\ ParseInt(futures[k].call_id) = k - 1
              /\ futures[k].state = "Invoked"

\* run() has returned the futures of a job handed to the remote invoker
C9_Witness ==
    /\ run.returned /\ run.remote
    /\ run.total > 1
    /\ Len(futures) = run.total

\* C10: after stop() is called, every background worker eventually leaves
\* its loop (unless a later run() has started workers again).
C10_WorkersExitAfterStop ==
    \A k \in 0..MaxJobs :
        (mainpc = "stop_push" /\ njobs = k) ~> (Alive = 0 \/ njobs > k)

\* the invocations the background workers have submitted and that are not
\* answered yet
BgTasks == {t \in BagToSet(tasks) : t[3] = "bg"}

Finished == wt.pc = "none" /\ wt.kind # "none"

\* C12: a wait() on a set of futures that is not empty has called stop()
\* when it ends, however it ends (normally, after a swallowed
\* FunctionException, a timeout, an interrupt, or raising an exception
\* again); right after the stop() of the finally block the flag is down.
C12_WaitAlwaysStops ==
    /\ Finished => wt.stops >= 1
    /\ wt.pc = "fin_clean" => (wt.stops >= 1 /\ running_flag = 0)

\* wait() has ended after the timeout went off with calls still running
C12_Witness ==
    /\ Finished /\ wt.kind = "timeout" /\ wt.stops = 1
    /\ wt.notdone # {}
    /\ \E j \in JobIds, i \in CallIdx : callst[j][i] = "running"

\* C13: the deletion of the objects of a job is started at most once,
\* whatever wait() and clean() calls are made.
C13_CleanedAtMostOnce == \A j \in JobIds : deletions[j] <= 1

\* a clean() inside wait() has met a job that was cleaned before
C13_Witness ==
    /\ Finished
    /\ nwaits = MaxWaits
    /\ wt.skipped # {}
    /\ \A j \in wt.skipped : deletions[j] = 1

C15_RemoteFailure ==
    (Finished /\ wt.remote # "none") =>
        /\ wt.stops >= 1
        /\ wt.throw => wt.raised = wt.remote
        /\ ~wt.throw => /\ wt.raised = "none"
                        /\ wt.done \cap wt.notdone = {}
                        /\ \E sel \in 0..MaxJobs :
                              wt.done \cup wt.notdone = Selected(sel)
                        /\ \A p \in wt.done : FDone(efut[p[1]][p[2]])
                                                 \/ FReady(efut[p[1]][p[2]])

\* the entry of call i of job j is on the pending queue
Pending(j, i) == <<j, Fmt05(i)>> \in SeqToSet(pending_calls_q)

\* C16: when run() is given more calls than there are free workers, it
\* dispatches as many as there are workers and enqueues the others; every
\* enqueued call is dispatched in the end, on a token the monitor issues for
\* a finished call; and a wait(return_when=ALL_COMPLETED) returns with every
\* future in done and none in not_done (every invocation is accepted, every
\* call succeeds).
C16_PendingDispatchedAllDone ==
    /\ [](run.returned /\ run.evalOngoing = 0 /\ run.total > workers =>
             /\ Cardinality(run.direct) = workers
             /\ Len(run.enq) = run.total - workers)
    /\ \A j \in JobIds : \A i \in CallIdx :
          Pending(j, i) ~> callst[j][i] \in {"running", "done"}
    /\ \A k \in 1..MaxWaits :
          (wt.pc = "poll" /\ nwaits = k) ~>
              /\ Finished /\ nwaits = k
              /\ wt.raised = "none"
              /\ wt.done = AllFutures
              /\ wt.notdone = {}

\* one worker, a job of two calls: one was dispatched by run(), the other was
\* enqueued and dispatched by a background worker; wait() has returned both
\* futures as done
C16_Witness ==
    /\ workers = 1 /\ run.total = 2
    /\ run.direct = {0} /\ Len(run.enq) = 1
    /\ mon[run.id].issued >= 1
    /\ Finished /\ wt.kind = "normal"
    /\ Cardinality(wt.done) = 2 /\ wt.notdone = {}

\* C23: with the remote invoker configured and more than one call, run()
\* makes no invocation of its own for the calls of the job (the job is handed
\* over in the one invocation of _invoke_remote), and when that invocation
\* obtains no activation id run() raises instead of returning the futures.
C23_RemoteFailureRaised ==
    /\ run.remote =>
          /\ run.direct = {} /\ run.enq = <<>>
          /\ \A t \in BagToSet(tasks) : t[1] # run.id
    /\ (run.remote /\ remoteSt[run.id] = "failed") =>
          (run.raised /\ ~run.returned)

\* a lidar_map call met a runtime of another Python version
Mismatch == \E k \in 1..Len(run.vers) : run.vers[k] # py_local_version

\* C24: when the runtime of any compute handler reports a Python version
\* that is not the caller's, select_runtime raises, and as lidar_map calls it
\* before run(), no call of the job is invoked or enqueued, no monitor is
\* started and no future is made.
C24_MismatchNothingDispatched ==
    Mismatch =>
        /\ run.raised /\ ~run.returned
        /\ \A t \in BagToSet(tasks) : t[1] # run.id
        /\ \A k \in 1..Len(pending_calls_q) : pending_calls_q[k][1] # run.id
        /\ \A i \in CallIdx : callst[run.id][i] = "new" /\ ~HasFuture(run.id, i)
        /\ ~mon[run.id].started
        /\ remoteSt[run.id] = "none"

\* the second lidar_map met a mismatch at its second handler while a call of
\* the first job was running
C24_Witness ==
    /\ Mismatch /\ run.raised
    /\ run.id = 2
    /\ run.vers = <<"3.6", "3.7">>
    /\ \E i \in CallIdx : callst[1][i] = "running"

\* how many times x occurs in the sequence q
Count(q, x) == Cardinality({k \in 1..Len(q) : q[k] = x})

\* C25: an activation of function_handler, however it ends, gives '__end__'
\* to CallStatus.send exactly once, and after the '__init__' it may have
\* sent; the status object of the call is put in the store at most once
\* (once when STORE_STATUS is on), after the init object.
C25_OneTerminalStatus ==
    /\ Count(store.sent, "__end__") <= 1
    /\ Count(store.puts, "status") <= 1
    /\ \A k \in 1..Len(store.sent) :
          store.sent[k] = "__end__" => k = Len(store.sent)
    /\ \A k \in 1..Len(store.puts) :
          store.puts[k] = "status" => k = Len(store.puts)
    /\ store.hpc = "done" =>
          /\ Count(store.sent, "__end__") = 1
          /\ store.store_status => Count(store.puts, "status") = 1
          /\ store.store_status => store.status = EndBlob(store.outcome)

\* an activation that was killed for running out of time has sent
\* '__init__' and then '__end__' and stored the one status
C25_Witness ==
    /\ store.hpc = "done" /\ store.outcome = "OUTATIME"
    /\ store.sent = <<"__init__", "__end__">>
    /\ store.puts = <<"init", "status">>

\* ------------------------------------------------------------------------
\* get_result
\* ------------------------------------------------------------------------
\* self.futures keeps the futures in the order lidar_map extended it: job
\* after job, call after call
JobSeq(j) ==
    SelectSeq([k \in 1..MaxCalls |-> <<j, k - 1>>],
              LAMBDA p : HasFuture(p[1], p[2]))

RECURSIVE JobsSeq(_)
JobsSeq(n) == IF n = 0 THEN <<>> ELSE JobsSeq(n - 1) \o JobSeq(n)

Reverse(q) == [k \in 1..Len(q) |-> q[Len(q) + 1 - k]]

\* get_result(fs): the list wait() is given and classifies: self.futures
\* without fs (sel = 0); the futures of job sel as the caller lists them, in
\* the order of the job or the other way round
FsSeq(sel, rev) ==
    IF sel = 0 THEN JobsSeq(MaxJobs)
    ELSE IF rev THEN Reverse(JobSeq(sel)) ELSE JobSeq(sel)

\* get_result(): the test of the loop over fs_done; fsGiven is "fs"
Eligible_unread(f, fsGiven) ==
    ~(f.state = "Futures") /\ f.produce_output /\ ~f.read
Eligible(f, fsGiven) ==
    ~(f.state = "Futures") /\ f.produce_output /\ (fsGiven \/ ~f.read)

\* get_result(): the loop over fs_done, in the order of the list; the value
\* of a call is written as the call; f.read is set in the branch of the
\* futures the executor stores; an exception of f.result() leaves the loop
RECURSIVE Collect(_, _, _, _, _)
Collect(fl, ef, fsGiven, throw, acc) ==
    IF fl = <<>> THEN [ef |-> ef, result |-> acc, raised |-> "none"]
    ELSE
    LET p == Head(fl)
        f == ef[p[1]][p[2]]
    IN  IF ~FDone(f) \/ ~Eligible(f, fsGiven)
        THEN Collect(Tail(fl), ef, fsGiven, throw, acc)
        ELSE
        LET r == ResultOf(f, throw, NoStatus, 0, "absent", 0)
        IN  IF r.raised # "none"
            THEN [ef |-> ef, result |-> acc, raised |-> r.raised]
            ELSE Collect(Tail(fl),
                         [ef EXCEPT ![p[1]][p[2]].read = IF fsGiven THEN @ ELSE TRUE],
                         fsGiven, throw, Append(acc, p))

\* get_result(): "if result and len(result) == 1: return result[0]"
Unwrap_never(result) == FALSE
Unwrap(result) == result # <<>> /\ Len(result) = 1

\* get_result(fs, throw_except, timeout): the call of
\* wait(download_results=True)
GetBegin(throw, sel, rev) ==
    /\ CallerFree
    /\ nwaits < MaxWaits
    /\ Selected(sel) # {}
    /\ sel = 0 => ~rev
    /\ nwaits' = nwaits + 1
    /\ mainpc' = "wait"
    /\ wt' = [NoWait EXCEPT !.pc = "poll", !.throw = throw, !.download = TRUE,
                            !.sel = sel, !.get = TRUE, !.rev = rev,
                            !.given = wt.given, !.tracked = wt.tracked]
    /\ UNCHANGED <<workers, rabbitmq_monitor, remote_invoker, token_bucket_q,
                   pending_calls_q, running_flag, ongoing_activations, invokers,
                   wk, tasks, njobs, nstops, job, futures, run, mon, callst,
                   markers, channel, rejectsLeft, cleaned_jobs, remoteSt,
                   futVars, efut, deletions>>

\* get_result(): after wait() has returned: the loop and the return; given
\* and tracked remember the calls whose values get_result has returned, with
\* any list and without fs
GetCollect ==
    /\ wt.pc = "collect"
    /\ LET c == Collect(FsSeq(wt.sel, wt.rev), efut, wt.sel # 0, wt.throw, <<>>)
           vals == {c.result[k] : k \in 1..Len(c.result)}
       IN  /\ efut' = c.ef
           /\ wt' = IF c.raised # "none"
                    THEN [wt EXCEPT !.pc = "none", !.raised = c.raised,
                                    !.done = {}, !.notdone = {}]
                    ELSE [wt EXCEPT !.pc = "none", !.result = c.result,
                                    !.bare = Unwrap(c.result),
                                    !.given = @ \cup vals,
                                    !.tracked = IF wt.sel = 0 THEN @ \cup vals ELSE @]
    /\ mainpc' = "idle"
    /\ UNCHANGED <<workers, rabbitmq_monitor, remote_invoker, token_bucket_q,
                   pending_calls_q, running_flag, ongoing_activations, invokers,
                   wk, tasks, njobs, nstops, job, futures, run, mon, callst,
                   markers, channel, rejectsLeft, cleaned_jobs, remoteSt,
                   futVars, deletions, nwaits>>

\* the outcomes of the calls get_result looks at
GetOutcomes == {"value", "noresult", "OUTATIME"}

\* A caller that maps jobs and asks for their results with get_result, with
\* and without a list of futures, with and without a timeout
GetNext ==
    \/ \E n \in 1..MaxCalls : CallerFree /\ RunBegin(n, TRUE)
    \/ RunFinish
    \/ MapExtend
    \/ \E t \in BagToSet(tasks) : InvokeAccept(t)
    \/ \E j \in JobIds, i \in CallIdx : CallComplete(j, i, 1)
    \/ \E throw \in BOOLEAN, sel \in 0..MaxJobs, rev \in BOOLEAN :
           GetBegin(throw, sel, rev)
    \/ \E j \in JobIds, i \in CallIdx, o \in GetOutcomes : WaitPoll(j, i, o)
    \/ WaitPolled
    \/ WaitTimeout
    \/ WaitStop
    \/ WaitClean
    \/ GetCollect

GetSpec == WaitInit /\ [][GetNext]_vars

\* get_result returns its values in this step
Returning == wt.pc = "collect" /\ wt'.pc = "none" /\ wt'.raised = "none"

Elems(q) == {q[k] : k \in 1..Len(q)}

\* the futures of the list fl that are done and produce output
DoneWithOutput(fl, ef) ==
    {p \in Elems(fl) : FDone(ef[p[1]][p[2]]) /\ ef[p[1]][p[2]].produce_output}

LateNext ==
    \/ \E n \in 1..MaxCalls : CallerFree /\ RunBegin(n, TRUE)
    \/ RunFinish
    \/ MapExtend
    \/ \E throw \in BOOLEAN, download \in BOOLEAN, when \in {"ALL", "ANY"},
          sel \in 0..MaxJobs :
           WaitBegin(throw, download, when, sel)
    \/ \E j \in JobIds, i \in CallIdx, o \in WaitOutcomes : WaitPoll(j, i, o)
    \/ WaitPolled
    \/ WaitTimeout
    \/ WaitStop
    \/ WaitClean
    \/ \E t \in BagToSet(tasks) : InvokeAccept(t)
    \/ Workers
    \/ \E j \in JobIds, i \in CallIdx : CallComplete(j, i, 1)
    \/ \E j \in JobIds : MonitorPoll(j)

LateSpec == WaitInit /\ [][LateNext]_vars

\* the status object of call p is in the store, or its future has read it
StatusAvailable(p) ==
    \/ p[2] \in markers[p[1]]
    \/ efut[p[1]][p[2]].call_status # NoStatus

\* C28: once a wait() that its timeout ended has returned, every call that
\* an activation was running when the timeout went off and that has
\* completed since has its status object in the store (or read by its
\* future), for the next wait() on the same futures to find it: the stop and
\* the clean of the first wait() have not taken it away.
C28_LateStatusAvailable ==
    (Finished /\ wt.kind = "timeout") =>
        \A p \in wt.late :
            callst[p[1]][p[2]] = "done" => StatusAvailable(p)

\* the calls a compute handler has accepted and that have not completed
Accepted == {p \in JobIds \X CallIdx : callst[p[1]][p[2]] = "running"}

\* C30: whatever run(), wait(), stop() and run() again have done so far, the
\* activations a compute handler has accepted and that have not completed
\* are at most "workers".
C30_AcceptedAtMostWorkers == Cardinality(Accepted) <= workers

\* ------------------------------------------------------------------------
\* Claims about run(), stop() and the threads of the scheduler
\* ------------------------------------------------------------------------

\* run() is called in this step
RunStarts == njobs' = njobs + 1

\* C31: run() begins by taking every token out of the bucket, one decrement
\* of ongoing_activations for each; with the running flag at 0 it then sets
\* ongoing_activations to 0, raises the flag and starts INVOKER_PROCESSES
\* workers; with the flag at 1 it starts no worker and keeps the drained
\* ongoing_activations. (run'.evalOngoing is ongoing_activations as run() has
\* it before it counts the direct invocations.)
C31_RunStart ==
    [][RunStarts =>
        /\ token_bucket_q' = 0
        /\ running_flag' = 1
        /\ IF running_flag = 0
           THEN /\ run'.evalOngoing = 0
                /\ Alive' = Alive + INVOKER_PROCESSES
                /\ invokers' = INVOKER_PROCESSES
           ELSE /\ run'.evalOngoing = ongoing_activations - token_bucket_q
                /\ Alive' = Alive
                /\ invokers' = invokers]_vars

\* the second run() found the flag up and one token of the first job's
\* monitor in the bucket: it has drained it and started no worker
C31_Witness ==
    /\ run.id = 2 /\ nstops = 0
    /\ workers = 1
    /\ mon[1].issued = 1
    /\ wk.tok = INVOKER_PROCESSES
    /\ run.evalOngoing = 0

\* the scheduler next to a caller that also cleans jobs, its threads running
\* whenever they can
CleanFairSpec == Init /\ [][CleanNext]_vars /\ Fairness

\* every call of job j has written its completion marker
AllWritten(j) ==
    /\ mon[j].started
    /\ \A i \in 0..(job[j] - 1) : callst[j][i] = "done"

\* C32, the monitor's loop: a polling monitor that has counted total_calls
\* completions has left its loop and issues no further token.
C32_NoTokenOnceCounted ==
    [][\A j \in JobIds :
          (mon[j].started /\ mon[j].done = job[j]) =>
              (mon'[j] = mon[j] /\ ~Monitoring(j))]_vars

\* C32: once every call of a job has written its completion marker, the
\* job's polling monitor eventually leaves its loop.
C32_MonitorTerminates ==
    \A j \in JobIds : AllWritten(j) ~> ~Monitoring(j)

\* the sequence q of call ids goes up
Ascending(q) == \A a \in 1..Len(q) : \A b \in 1..Len(q) : a < b => q[a] < q[b]

\* C33: the direct invocations of a job meet the compute handler in
\* ascending order of their call ids.
C33_InvokedAscending == Ascending(run.inv)

\* C33, as the code has it: run() gives the direct calls to its pool in
\* ascending order of their call ids, every one once; the invocations that
\* meet a compute handler are those, in whatever order the threads of the
\* pool get there.
C33_SubmittedAscending ==
    /\ Ascending(run.sub)
    /\ Elems(run.inv) \subseteq Elems(run.sub)
    /\ Len(run.inv) = Cardinality(Elems(run.inv))
    /\ (run.returned /\ ~run.remote) => Len(run.inv) = Len(run.sub)

\* run() gave calls 0 and 1 to its pool and call 1 met the compute handler
\* first
C33_Witness ==
    /\ run.returned
    /\ run.sub = <<0, 1>>
    /\ run.inv = <<1, 0>>

\* A caller that maps jobs and waits for its futures, for all of them or for
\* any of them, with and without a timeout; every invocation is accepted,
\* every call ends without an exception, and the threads of the scheduler,
\* the remote calls and wait() go on whenever they can.
AnyWaitNext ==
    \/ \E n \in 1..MaxCalls : CallerFree /\ RunBegin(n, TRUE)
    \/ RunFinish
    \/ MapExtend
    \/ \E t \in BagToSet(tasks) : InvokeAccept(t)
    \/ Workers
    \/ \E j \in JobIds, i \in CallIdx : CallComplete(j, i, 1)
    \/ \E j \in JobIds : MonitorPoll(j)
    \/ \E when \in {"ALL", "ANY"} : WaitBegin(TRUE, FALSE, when, 0)
    \/ \E j \in JobIds, i \in CallIdx, o \in CallOutcomes : WaitPoll(j, i, o)
    \/ WaitPolled
    \/ WaitTimeout
    \/ WaitStop
    \/ WaitClean

AnyWaitSpec == WaitInit /\ [][AnyWaitNext]_vars /\ MapWaitFairness

\* C34: every call run() has returned a future for is dispatched in the end
\* (a compute handler accepts its invocation), also when a wait() has
\* returned, on the first completion or on its timeout, while calls of the
\* job were in the pending queue.
C34_FuturesEventuallyDispatched ==
    \A j \in JobIds : \A i \in CallIdx :
        HasFuture(j, i) ~> callst[j][i] \in {"running", "done"}

\* C35: the background workers inside their loop are never more than
\* INVOKER_PROCESSES, and never more than the workers in self.invokers, for
\* which a stop() pushes its sentinels.
C35_AtMostInvokerProcesses ==
    /\ Alive <= INVOKER_PROCESSES
    /\ Alive <= invokers

\* every call of job j has completed
AllCallsDone(j) == \A i \in 0..(job[j] - 1) : callst[j][i] = "done"

\* C36: clean(), called by the user or by wait(), starts the deletion of the
\* objects of a job only when every call of the job has completed: none is
\* waiting in the pending queue, being invoked or running.
C36_NoDeletionBeforeDone ==
    [][\A j \in JobIds : deletions'[j] > deletions[j] => AllCallsDone(j)]_vars

\* C37: ongoing_activations is within 0..workers in every state, the value
\* run() goes on with after its token drain included, and a run() invokes at
\* most "workers" calls directly.
C37_OngoingWithinBudget ==
    /\ ongoing_activations \in 0..workers
    /\ run.evalOngoing \in 0..workers
    /\ Len(run.sub) <= workers
    /\ Cardinality(run.direct) <= workers

\* the scheduler with the rabbitmq monitor and a caller that runs jobs and
\* never stops the scheduler; the channel may carry a terminal message twice
DupNext ==
    \/ \E n \in 1..MaxCalls : RunWithin(n, TRUE, <<>>, MaxCallsDup)
    \/ RunFinish
    \/ \E t \in BagToSet(tasks) : InvokeAccept(t)
    \/ Workers
    \/ \E j \in JobIds, i \in CallIdx, copies \in 1..MaxDup : CallComplete(j, i, copies)
    \/ \E j \in JobIds, i \in CallIdx, ty \in {"__init__", "__end__"} :
           RabbitCallback(j, <<i, ty>>)

DupInit == RabbitInit /\ remote_invoker = FALSE

DupSpec == DupInit /\ [][DupNext]_vars

\* stop() has returned, no run() has followed it, and no invocation is
\* waiting for the answer of a compute handler
StoppedAndQuiet ==
    /\ nstops > 0 /\ running_flag = 0
    /\ mainpc = "idle"
    /\ tasks = EmptyBag

\* C38: once stop() has returned and the invocations that were in flight
\* have got their answers, the pending queue is empty: it holds no sentinel
\* and no entry of a job run before the stop() for the workers of a later
\* run() to take.
C38_QueueEmptyAfterStop == StoppedAndQuiet => pending_calls_q = <<>>

\* the invocations of call i of job j that are still to come: submitted to a
\* pool, waiting in the pending queue, or in the hands of a worker
Live(j, i) ==
    Cardinality({t \in BagToSet(tasks) : t[1] = j /\ t[2] = Fmt05(i)})
    + Count(pending_calls_q, <<j, Fmt05(i)>>)
    + CopiesIn(<<j, Fmt05(i)>>, wk.held)
    + (IF run.id = j /\ mainpc = "run_wait"
       THEN Count(run.rest, i) ELSE 0)

\* C39: a call obtains an activation id at most once: there is never more
\* than one invocation of it to come, and none once a compute handler has
\* accepted one, whatever run(), the workers, the rejections and stop() do.
C39_AcceptedAtMostOnce ==
    \A j \in JobIds : \A i \in CallIdx :
        /\ Live(j, i) <= 1
        /\ \A t \in BagToSet(tasks) : CopiesIn(t, tasks) = 1
        /\ callst[j][i] \in {"running", "done"} => Live(j, i) = 0

\* call 0 was rejected when run() invoked it, was put back on the queue and
\* has been accepted when a worker invoked it again
C39_Witness ==
    /\ njobs = 1 /\ job[1] = 2 /\ workers = 2
    /\ rejectsLeft = 0
    /\ run.ok = {1} /\ run.direct = {0, 1}
    /\ callst[1][0] = "running"

\* C40: a get_result(throw_except=False) that has come back has raised
\* nothing, also when a future of its list is in state Error: it returns the
\* values of the other futures.
C40_ErrorFutureSkipped ==
    (wt.get /\ Finished /\ ~wt.throw) => wt.raised = "none"

====
